---- MODULE Spec2Model ----
(***************************************************************************)
(* Capacity constraints and objective of the calliope pyomo backend:       *)
(*   src/calliope/backend/pyomo/constraints/capacity.py                    *)
(*   src/calliope/backend/pyomo/objective.py                               *)
(*                                                                         *)
(* Parameter values are tagged records, so that None, False, a number and  *)
(* +infinity stay distinct, as they are in Python.  A constraint returned  *)
(* by a rule is a record naming its kind and its operands.                 *)
(***************************************************************************)
EXTENDS Integers, Sequences, FiniteSets, TLC

VARIABLES
    store,              \* the parameter store: configured (name, index) -> value
    energy_cap_index,   \* index set of the energy_cap variable: set of <<node, tech>>
    args,               \* the call being made: function or rule, and its arguments
    result,             \* what that call returned (or raised)
    registry,           \* constraints registered during a model build
    phase,              \* "call", "build" ("aborted" after a raise) or "objective"
    model_data,         \* what the objective reads from backend_model
    obj                 \* backend_model.obj: the one objective the model holds

vars == <<store, energy_cap_index, args, result, registry, phase, model_data, obj>>

-----------------------------------------------------------------------------
(* Bounds of the model *)

MaxCap == 1
MaxScale == 2
MaxSlack == 1
MaxWeight == 2
MaxCost == 1
BigM == 3

-----------------------------------------------------------------------------
(* Values *)

None == [tag |-> "None", n |-> 0]
False == [tag |-> "False", n |-> 0]
Inf == [tag |-> "inf", n |-> 0]
Num(k) == [tag |-> "num", n |-> k]

IsNone(v) == v.tag = "None"
IsFalse(v) == v.tag = "False"

\* np.isinf(po.value(v))
IsInf(v) == v.tag = "inf"

\* Python truth value: None, False and 0 are falsy, everything else truthy
Truthy(v) == v.tag = "inf" \/ (v.tag = "num" /\ v.n # 0)

\* po.value(v) == 0 (in Python False == 0 is True, None == 0 is False)
EqZero(v) == (v.tag = "num" /\ v.n = 0) \/ v.tag = "False"

\* v * s for floats: inf * 0 is nan, inf times a positive number is inf
NaN == [tag |-> "nan", n |-> 0]
Mul(v, s) ==
    IF v.tag = "nan" \/ s.tag = "nan" THEN NaN
    ELSE IF v.tag = "inf" THEN (IF s.tag = "num" /\ s.n = 0 THEN NaN ELSE Inf)
    ELSE IF s.tag = "inf" THEN (IF v.n = 0 THEN NaN ELSE Inf)
    ELSE Num(v.n * s.n)

Nodes == {"n1", "n2"}
Techs == {"t1", "t2"}
LocTechs == Nodes \X Techs
CapacityKinds == {"storage_cap", "resource_cap", "resource_area", "energy_cap"}

Caps == {Num(k) : k \in 0..MaxCap}
EqualsValues == {None, False, Inf} \cup Caps
MaxValues == {Inf} \cup Caps
MinValues == Caps
ScaleValues == {Num(k) : k \in 0..MaxScale}
RatioValues == {None} \cup {Num(k) : k \in 0..MaxScale}

-----------------------------------------------------------------------------
(* The parameter store *)

\* Value of a parameter that is not configured
Default(name) ==
    CASE name \in {"storage_cap_max", "resource_cap_max", "resource_area_max",
                   "energy_cap_max"} -> Inf
      [] name \in {"storage_cap_min", "resource_cap_min", "resource_area_min",
                   "energy_cap_min"} -> Num(0)
      [] name = "energy_cap_scale" -> Num(1)
      [] name = "energy_cap_max_systemwide" -> Inf
      [] OTHER -> None

\* get_param(backend_model, name, index): the configured value, else the default
get_param(st, name, index) ==
    IF <<name, index>> \in DOMAIN st THEN st[<<name, index>>] ELSE Default(name)

NoStore == [k \in {} |-> None]

\* A store holding the equals/max/min triple of one capacity kind at one loc::tech
Triple(kind, lt, e, mx, mn) ==
    (<<kind \o "_equals", lt>> :> e) @@ (<<kind \o "_max", lt>> :> mx)
        @@ (<<kind \o "_min", lt>> :> mn)

-----------------------------------------------------------------------------
(* Constraints returned by the rules *)

Var(parameter, node, tech) == <<parameter, node, tech>>

Equality(v, value) == [kind |-> "Equality", var |-> v, value |-> value]
Range(lo, v, hi) == [kind |-> "Range", var |-> v, lo |-> lo, hi |-> hi]
NoConstraint == [kind |-> "NoConstraint"]
ModelError(parameter, node, tech) ==
    [kind |-> "ModelError", parameter |-> parameter, tech |-> tech, node |-> node]
NoResult == [kind |-> "NoResult"]

-----------------------------------------------------------------------------
(* get_capacity_constraint *)

\* "if not _x: _x = get_param(...)": a falsy argument is replaced by the stored value
ResolveArg(st, supplied, name, index) ==
    IF ~Truthy(supplied) THEN get_param(st, name, index) ELSE supplied

\* "po.value(_equals) is not False and po.value(_equals) is not None"
EqualsIsSet(e) == ~IsFalse(e) /\ ~IsNone(e)

\* "po.value(_min) == 0 and np.isinf(po.value(_max))"
IsUnconstrained(mn, mx) == EqZero(mn) /\ IsInf(mx)

\* "if scale: _x *= scale"
ApplyScale(v, scale) == IF Truthy(scale) THEN Mul(v, scale) ELSE v

\* The equality branch without the test for infinity
EqualityBranchAnyValue(parameter, node, tech, e, scale) ==
    Equality(Var(parameter, node, tech), ApplyScale(e, scale))

EqualityBranch(parameter, node, tech, e, scale) ==
    IF IsInf(e)
    THEN ModelError(parameter, node, tech)
    ELSE Equality(Var(parameter, node, tech), ApplyScale(e, scale))

\* The range branch without the unconstrained case
RangeBranchAlways(parameter, node, tech, mn, mx, scale) ==
    Range(ApplyScale(mn, scale), Var(parameter, node, tech), ApplyScale(mx, scale))

RangeBranch(parameter, node, tech, mn, mx, scale) ==
    IF IsUnconstrained(mn, mx)
    THEN NoConstraint
    ELSE Range(ApplyScale(mn, scale), Var(parameter, node, tech), ApplyScale(mx, scale))

\* lines 31-45: the branches taken on the resolved equals, max and min
DecisionTable(parameter, node, tech, e, mx, mn, scale) ==
    IF EqualsIsSet(e)
    THEN EqualityBranch(parameter, node, tech, e, scale)
    ELSE RangeBranch(parameter, node, tech, mn, mx, scale)

get_capacity_constraint(st, parameter, node, tech, _equals, _max, _min, scale) ==
    LET e == ResolveArg(st, _equals, parameter \o "_equals", <<node, tech>>)
        mx == ResolveArg(st, _max, parameter \o "_max", <<node, tech>>)
        mn == ResolveArg(st, _min, parameter \o "_min", <<node, tech>>)
    IN  DecisionTable(parameter, node, tech, e, mx, mn, scale)

-----------------------------------------------------------------------------
(* The rules of capacity.py *)

\* energy_cap (op) storage_cap * coef, and the like
Relation(op, lhs, rhs, coef) ==
    [kind |-> "Relation", op |-> op, lhs |-> lhs, rhs |-> rhs, coef |-> coef]
\* lhs == rhs between two variables
VarEquality(lhs, rhs) == [kind |-> "VarEquality", lhs |-> lhs, rhs |-> rhs]
\* sum of variables (op) rhs
SumRelation(op, terms, rhs) ==
    [kind |-> "SumRelation", op |-> op, terms |-> terms, rhs |-> rhs]

storage_capacity_constraint_rule(st, node, tech) ==
    get_capacity_constraint(st, "storage_cap", node, tech, None, None, None, None)

energy_capacity_storage_constraint_rule_old(st, node, tech) ==
    Relation("<=", Var("energy_cap", node, tech), Var("storage_cap", node, tech),
             get_param(st, "charge_rate", <<node, tech>>))

energy_capacity_storage_min_constraint_rule(st, node, tech) ==
    Relation(">=", Var("energy_cap", node, tech), Var("storage_cap", node, tech),
             get_param(st, "energy_cap_per_storage_cap_min", <<node, tech>>))

energy_capacity_storage_max_constraint_rule(st, node, tech) ==
    Relation("<=", Var("energy_cap", node, tech), Var("storage_cap", node, tech),
             get_param(st, "energy_cap_per_storage_cap_max", <<node, tech>>))

energy_capacity_storage_equals_constraint_rule(st, node, tech) ==
    Relation("==", Var("energy_cap", node, tech), Var("storage_cap", node, tech),
             get_param(st, "energy_cap_per_storage_cap_equals", <<node, tech>>))

resource_capacity_constraint_rule(st, node, tech) ==
    get_capacity_constraint(st, "resource_cap", node, tech, None, None, None, None)

resource_capacity_equals_energy_capacity_constraint_rule(st, node, tech) ==
    VarEquality(Var("resource_cap", node, tech), Var("energy_cap", node, tech))

\* "po.value(energy_cap_max) == 0 and not po.value(area_per_energy_cap)"
ForceAreaToZero(energy_cap_max, area_per_energy_cap) ==
    EqZero(energy_cap_max) /\ ~Truthy(area_per_energy_cap)

resource_area_constraint_rule(st, node, tech) ==
    LET energy_cap_max == get_param(st, "energy_cap_max", <<node, tech>>)
        area_per_energy_cap == get_param(st, "resource_area_per_energy_cap", <<node, tech>>)
    IN  IF ForceAreaToZero(energy_cap_max, area_per_energy_cap)
        THEN Equality(Var("resource_area", node, tech), Num(0))
        ELSE get_capacity_constraint(st, "resource_area", node, tech,
                                     None, None, None, None)

resource_area_per_energy_capacity_constraint_rule(st, node, tech) ==
    Relation("==", Var("resource_area", node, tech), Var("energy_cap", node, tech),
             get_param(st, "resource_area_per_energy_cap", <<node, tech>>))

energy_capacity_constraint_rule(st, node, tech) ==
    LET scale == get_param(st, "energy_cap_scale", <<node, tech>>)
    IN  get_capacity_constraint(st, "energy_cap", node, tech, None, None, None, scale)

\* "if equals_systemwide:"
SystemwideEqualsApplies(equals_systemwide) == Truthy(equals_systemwide)

energy_capacity_systemwide_constraint_rule(st, index, tech) ==
    LET max_systemwide == get_param(st, "energy_cap_max_systemwide", <<tech>>)
        equals_systemwide == get_param(st, "energy_cap_equals_systemwide", <<tech>>)
        energy_cap == {Var("energy_cap", node, tech) :
                          node \in {n \in Nodes : <<n, tech>> \in index}}
    IN  IF SystemwideEqualsApplies(equals_systemwide)
        THEN SumRelation("==", energy_cap, equals_systemwide)
        ELSE SumRelation("<=", energy_cap, max_systemwide)

-----------------------------------------------------------------------------
(* Single calls: the inputs of one call are drawn, then the call is made *)

CallerEquals == {None, Inf} \cup Caps
CallerMax == {None, Inf} \cup Caps
CallerMin == {None} \cup Caps
CallerScale == {None} \cup ScaleValues

NoArgs == [fn |-> "none"]
NoModelData == [ensure_feasibility |-> FALSE]
NoObj == [rule |-> "none"]

\* The equals/max/min triple of any one capacity kind is configured at lt
TripleStores(lt) ==
    {Triple(kind, lt, e, mx, mn) :
        kind \in CapacityKinds, e \in EqualsValues, mx \in MaxValues, mn \in MinValues}

\* A direct call of get_capacity_constraint, with arguments of the caller's choice
InitDirect ==
    /\ \E parameter \in CapacityKinds, lt \in LocTechs, _equals \in CallerEquals,
          _max \in CallerMax, _min \in CallerMin, scale \in CallerScale :
            args = [fn |-> "get_capacity_constraint", parameter |-> parameter,
                    node |-> lt[1], tech |-> lt[2], _equals |-> _equals,
                    _max |-> _max, _min |-> _min, scale |-> scale]
    /\ store \in TripleStores(<<args.node, args.tech>>)
    /\ energy_cap_index = LocTechs

\* One of the four capacity rules is evaluated for a loc::tech
InitCapacityRule ==
    /\ \E fn \in {"storage_capacity_constraint_rule", "resource_capacity_constraint_rule",
                   "resource_area_constraint_rule", "energy_capacity_constraint_rule"},
          lt \in LocTechs :
            args = [fn |-> fn, node |-> lt[1], tech |-> lt[2]]
    /\ LET lt == <<args.node, args.tech>>
       IN  \E t \in TripleStores(lt), energy_cap_max \in MaxValues,
              ratio \in RatioValues, scale \in ScaleValues :
                store = t @@ (<<"energy_cap_max", lt>> :> energy_cap_max)
                          @@ (<<"resource_area_per_energy_cap", lt>> :> ratio)
                          @@ (<<"energy_cap_scale", lt>> :> scale)
    /\ energy_cap_index = LocTechs

\* The systemwide rule is evaluated for a technology
InitSystemwide ==
    /\ \E tech \in Techs :
            /\ args = [fn |-> "energy_capacity_systemwide_constraint_rule", tech |-> tech]
            /\ \E e \in EqualsValues, mx \in MaxValues :
                    store = (<<"energy_cap_equals_systemwide", <<tech>>>> :> e)
                              @@ (<<"energy_cap_max_systemwide", <<tech>>>> :> mx)
    /\ energy_cap_index \in SUBSET LocTechs

InitCalls ==
    /\ (InitDirect \/ InitCapacityRule \/ InitSystemwide)
    /\ result = NoResult
    /\ registry = NoStore
    /\ phase = "call"
    /\ model_data = NoModelData
    /\ obj = NoObj

Returns(fn, r) ==
    /\ args.fn = fn
    /\ result = NoResult
    /\ result' = r
    /\ UNCHANGED <<store, energy_cap_index, args, registry, phase, model_data, obj>>

CallGetCapacityConstraint ==
    /\ args.fn = "get_capacity_constraint"
    /\ Returns("get_capacity_constraint",
               get_capacity_constraint(store, args.parameter, args.node, args.tech,
                                       args._equals, args._max, args._min, args.scale))

StorageCapacityRule ==
    /\ args.fn = "storage_capacity_constraint_rule"
    /\ Returns("storage_capacity_constraint_rule",
               storage_capacity_constraint_rule(store, args.node, args.tech))

ResourceCapacityRule ==
    /\ args.fn = "resource_capacity_constraint_rule"
    /\ Returns("resource_capacity_constraint_rule",
               resource_capacity_constraint_rule(store, args.node, args.tech))

ResourceAreaRule ==
    /\ args.fn = "resource_area_constraint_rule"
    /\ Returns("resource_area_constraint_rule",
               resource_area_constraint_rule(store, args.node, args.tech))

EnergyCapacityRule ==
    /\ args.fn = "energy_capacity_constraint_rule"
    /\ Returns("energy_capacity_constraint_rule",
               energy_capacity_constraint_rule(store, args.node, args.tech))

EnergyCapacitySystemwideRule ==
    /\ args.fn = "energy_capacity_systemwide_constraint_rule"
    /\ Returns("energy_capacity_systemwide_constraint_rule",
               energy_capacity_systemwide_constraint_rule(store, energy_cap_index,
                                                          args.tech))

NextCalls ==
    \/ CallGetCapacityConstraint
    \/ StorageCapacityRule
    \/ ResourceCapacityRule
    \/ ResourceAreaRule
    \/ EnergyCapacityRule
    \/ EnergyCapacitySystemwideRule

SpecCalls == InitCalls /\ [][NextCalls]_vars

-----------------------------------------------------------------------------
(* Building the constraints of a model: every rule is evaluated once for    *)
(* every loc::tech of its constraint set, in any order                      *)

\* The loc::techs each rule is built over
LocTechsStore == {<<"n1", "t2">>}
LocTechsSupplyPlus == {<<"n1", "t1">>}
LocTechsArea == {<<"n1", "t1">>, <<"n2", "t1">>}
LocTechsEnergy == {<<"n1", "t1">>, <<"n2", "t1">>, <<"n1", "t2">>}

\* The parameter whose being set makes a derived rule part of the model
GoverningParam(rule) ==
    CASE rule = "energy_capacity_storage_constraint_rule_old" -> "charge_rate"
      [] rule = "energy_capacity_storage_min_constraint_rule" ->
            "energy_cap_per_storage_cap_min"
      [] rule = "energy_capacity_storage_max_constraint_rule" ->
            "energy_cap_per_storage_cap_max"
      [] rule = "energy_capacity_storage_equals_constraint_rule" ->
            "energy_cap_per_storage_cap_equals"
      [] rule = "resource_capacity_equals_energy_capacity_constraint_rule" ->
            "resource_cap_equals_energy_cap"
      [] rule = "resource_area_per_energy_capacity_constraint_rule" ->
            "resource_area_per_energy_cap"

\* A governing parameter is set when it is configured and is not false
GoverningParamIsSet(st, rule, lt) ==
    LET v == get_param(st, GoverningParam(rule), lt)
    IN  ~IsNone(v) /\ ~IsFalse(v)

StorageDerivedRules == {"energy_capacity_storage_constraint_rule_old",
                        "energy_capacity_storage_min_constraint_rule",
                        "energy_capacity_storage_max_constraint_rule",
                        "energy_capacity_storage_equals_constraint_rule"}

ConstraintSet(st, rule) ==
    CASE rule = "storage_capacity_constraint_rule" -> LocTechsStore
      [] rule = "resource_capacity_constraint_rule" -> LocTechsSupplyPlus
      [] rule = "resource_area_constraint_rule" -> LocTechsArea
      [] rule = "energy_capacity_constraint_rule" -> LocTechsEnergy
      [] rule \in StorageDerivedRules ->
            {lt \in LocTechsStore : GoverningParamIsSet(st, rule, lt)}
      [] rule = "resource_capacity_equals_energy_capacity_constraint_rule" ->
            {lt \in LocTechsSupplyPlus : GoverningParamIsSet(st, rule, lt)}
      [] rule = "resource_area_per_energy_capacity_constraint_rule" ->
            {lt \in LocTechsArea : GoverningParamIsSet(st, rule, lt)}

\* What the rule returns for a loc::tech
RuleResult(st, rule, node, tech) ==
    CASE rule = "storage_capacity_constraint_rule" ->
            storage_capacity_constraint_rule(st, node, tech)
      [] rule = "energy_capacity_storage_constraint_rule_old" ->
            energy_capacity_storage_constraint_rule_old(st, node, tech)
      [] rule = "energy_capacity_storage_min_constraint_rule" ->
            energy_capacity_storage_min_constraint_rule(st, node, tech)
      [] rule = "energy_capacity_storage_max_constraint_rule" ->
            energy_capacity_storage_max_constraint_rule(st, node, tech)
      [] rule = "energy_capacity_storage_equals_constraint_rule" ->
            energy_capacity_storage_equals_constraint_rule(st, node, tech)
      [] rule = "resource_capacity_constraint_rule" ->
            resource_capacity_constraint_rule(st, node, tech)
      [] rule = "resource_capacity_equals_energy_capacity_constraint_rule" ->
            resource_capacity_equals_energy_capacity_constraint_rule(st, node, tech)
      [] rule = "resource_area_constraint_rule" ->
            resource_area_constraint_rule(st, node, tech)
      [] rule = "resource_area_per_energy_capacity_constraint_rule" ->
            resource_area_per_energy_capacity_constraint_rule(st, node, tech)
      [] rule = "energy_capacity_constraint_rule" ->
            energy_capacity_constraint_rule(st, node, tech)

\* The store after a rule ran with its scale factor written into the stored
\* energy_cap_max (an in-place "*=")
StoreAfterWritingBack(st, rule, node, tech) ==
    IF rule = "energy_capacity_constraint_rule"
    THEN (<<"energy_cap_max", <<node, tech>>>> :>
            ApplyScale(get_param(st, "energy_cap_max", <<node, tech>>),
                       get_param(st, "energy_cap_scale", <<node, tech>>))) @@ st
    ELSE st

\* The store after a rule ran: "_x *= scale" rebinds the rule's local name, and
\* no rule assigns to a parameter
StoreAfter(st, rule, node, tech) == st

\* The rule can be evaluated for the loc::tech: the build is running, the
\* loc::tech is in the rule's constraint set and has no constraint yet
CanEvaluate(rule, lt) ==
    /\ phase = "build"
    /\ lt \in ConstraintSet(store, rule)
    /\ <<rule, lt[1], lt[2]>> \notin DOMAIN registry

\* The registry with the rule's constraint for the loc::tech added
Registered(rule, lt) ==
    (<<rule, lt[1], lt[2]>> :> RuleResult(store, rule, lt[1], lt[2])) @@ registry

\* A raised ModelError ends the build
PhaseAfter(rule, lt) ==
    IF RuleResult(store, rule, lt[1], lt[2]).kind = "ModelError" THEN "aborted" ELSE phase

BuildStorageCapacity ==
    \E lt \in LocTechs :
        /\ CanEvaluate("storage_capacity_constraint_rule", lt)
        /\ registry' = Registered("storage_capacity_constraint_rule", lt)
        /\ phase' = PhaseAfter("storage_capacity_constraint_rule", lt)
        /\ store' = StoreAfter(store, "storage_capacity_constraint_rule", lt[1], lt[2])
        /\ UNCHANGED <<energy_cap_index, args, result, model_data, obj>>

BuildEnergyCapacityStorageOld ==
    \E lt \in LocTechs :
        /\ CanEvaluate("energy_capacity_storage_constraint_rule_old", lt)
        /\ registry' = Registered("energy_capacity_storage_constraint_rule_old", lt)
        /\ phase' = PhaseAfter("energy_capacity_storage_constraint_rule_old", lt)
        /\ store' = StoreAfter(store, "energy_capacity_storage_constraint_rule_old",
                               lt[1], lt[2])
        /\ UNCHANGED <<energy_cap_index, args, result, model_data, obj>>

BuildEnergyCapacityStorageMin ==
    \E lt \in LocTechs :
        /\ CanEvaluate("energy_capacity_storage_min_constraint_rule", lt)
        /\ registry' = Registered("energy_capacity_storage_min_constraint_rule", lt)
        /\ phase' = PhaseAfter("energy_capacity_storage_min_constraint_rule", lt)
        /\ store' = StoreAfter(store, "energy_capacity_storage_min_constraint_rule",
                               lt[1], lt[2])
        /\ UNCHANGED <<energy_cap_index, args, result, model_data, obj>>

BuildEnergyCapacityStorageMax ==
    \E lt \in LocTechs :
        /\ CanEvaluate("energy_capacity_storage_max_constraint_rule", lt)
        /\ registry' = Registered("energy_capacity_storage_max_constraint_rule", lt)
        /\ phase' = PhaseAfter("energy_capacity_storage_max_constraint_rule", lt)
        /\ store' = StoreAfter(store, "energy_capacity_storage_max_constraint_rule",
                               lt[1], lt[2])
        /\ UNCHANGED <<energy_cap_index, args, result, model_data, obj>>

BuildEnergyCapacityStorageEquals ==
    \E lt \in LocTechs :
        /\ CanEvaluate("energy_capacity_storage_equals_constraint_rule", lt)
        /\ registry' = Registered("energy_capacity_storage_equals_constraint_rule", lt)
        /\ phase' = PhaseAfter("energy_capacity_storage_equals_constraint_rule", lt)
        /\ store' = StoreAfter(store, "energy_capacity_storage_equals_constraint_rule",
                               lt[1], lt[2])
        /\ UNCHANGED <<energy_cap_index, args, result, model_data, obj>>

BuildResourceCapacity ==
    \E lt \in LocTechs :
        /\ CanEvaluate("resource_capacity_constraint_rule", lt)
        /\ registry' = Registered("resource_capacity_constraint_rule", lt)
        /\ phase' = PhaseAfter("resource_capacity_constraint_rule", lt)
        /\ store' = StoreAfter(store, "resource_capacity_constraint_rule", lt[1], lt[2])
        /\ UNCHANGED <<energy_cap_index, args, result, model_data, obj>>

BuildResourceCapacityEqualsEnergyCapacity ==
    \E lt \in LocTechs :
        /\ CanEvaluate("resource_capacity_equals_energy_capacity_constraint_rule", lt)
        /\ registry' =
             Registered("resource_capacity_equals_energy_capacity_constraint_rule", lt)
        /\ phase' =
             PhaseAfter("resource_capacity_equals_energy_capacity_constraint_rule", lt)
        /\ store' = StoreAfter(store,
                               "resource_capacity_equals_energy_capacity_constraint_rule",
                               lt[1], lt[2])
        /\ UNCHANGED <<energy_cap_index, args, result, model_data, obj>>

BuildResourceArea ==
    \E lt \in LocTechs :
        /\ CanEvaluate("resource_area_constraint_rule", lt)
        /\ registry' = Registered("resource_area_constraint_rule", lt)
        /\ phase' = PhaseAfter("resource_area_constraint_rule", lt)
        /\ store' = StoreAfter(store, "resource_area_constraint_rule", lt[1], lt[2])
        /\ UNCHANGED <<energy_cap_index, args, result, model_data, obj>>

BuildResourceAreaPerEnergyCapacity ==
    \E lt \in LocTechs :
        /\ CanEvaluate("resource_area_per_energy_capacity_constraint_rule", lt)
        /\ registry' = Registered("resource_area_per_energy_capacity_constraint_rule", lt)
        /\ phase' = PhaseAfter("resource_area_per_energy_capacity_constraint_rule", lt)
        /\ store' = StoreAfter(store, "resource_area_per_energy_capacity_constraint_rule",
                               lt[1], lt[2])
        /\ UNCHANGED <<energy_cap_index, args, result, model_data, obj>>

BuildEnergyCapacity ==
    \E lt \in LocTechs :
        /\ CanEvaluate("energy_capacity_constraint_rule", lt)
        /\ registry' = Registered("energy_capacity_constraint_rule", lt)
        /\ phase' = PhaseAfter("energy_capacity_constraint_rule", lt)
        /\ store' = StoreAfter(store, "energy_capacity_constraint_rule", lt[1], lt[2])
        /\ UNCHANGED <<energy_cap_index, args, result, model_data, obj>>

\* Parameters configured beside the triple: a scale, a ratio or a flag
ExtraParams(lt) ==
    {(<<"energy_cap_scale", lt>> :> v) : v \in ScaleValues}
    \cup {(<<"energy_cap_max", lt>> :> v) : v \in MaxValues}
    \cup {(<<"resource_area_per_energy_cap", lt>> :> v) : v \in RatioValues}
    \cup {(<<name, lt>> :> Num(MaxScale)) :
            name \in {"charge_rate", "energy_cap_per_storage_cap_min",
                      "energy_cap_per_storage_cap_max",
                      "energy_cap_per_storage_cap_equals"}}
    \cup {(<<"resource_cap_equals_energy_cap", lt>> :> Num(1))}

InitBuild ==
    /\ \E lt \in LocTechsEnergy, kind \in CapacityKinds, e \in EqualsValues :
            \E extra \in ExtraParams(lt) :
                store = (<<kind \o "_equals", lt>> :> e) @@ extra
    /\ energy_cap_index = LocTechsEnergy
    /\ args = NoArgs
    /\ result = NoResult
    /\ registry = NoStore
    /\ phase = "build"
    /\ model_data = NoModelData
    /\ obj = NoObj

NextBuild ==
    \/ BuildStorageCapacity
    \/ BuildEnergyCapacityStorageOld
    \/ BuildEnergyCapacityStorageMin
    \/ BuildEnergyCapacityStorageMax
    \/ BuildEnergyCapacityStorageEquals
    \/ BuildResourceCapacity
    \/ BuildResourceCapacityEqualsEnergyCapacity
    \/ BuildResourceArea
    \/ BuildResourceAreaPerEnergyCapacity
    \/ BuildEnergyCapacity

SpecBuild == InitBuild /\ [][NextBuild]_vars

-----------------------------------------------------------------------------
(* objective.py.  The objective is an expression over decision variables;   *)
(* model_data holds a point (a value for every cost, unmet_demand and       *)
(* unused_supply variable) and the expression is modelled by its value at   *)
(* that point, its cost part and its penalty part kept apart.               *)

Timesteps == {"ts1", "ts2"}
LocCarriers == {<<"power", "n1">>, <<"power", "n2">>}
SlackIndex == {<<lc[1], lc[2], t>> : lc \in LocCarriers, t \in Timesteps}
CostClasses == {"monetary", "emissions"}
CostIndex == {<<k, "n1", "t1">> : k \in CostClasses}

RECURSIVE Sum(_, _)
\* sum(f[i] for i in S)
Sum(f, S) ==
    IF S = {} THEN 0
    ELSE LET i == CHOOSE x \in S : TRUE IN f[i] + Sum(f, S \ {i})

\* sum(backend_model.cost[k, :, :])
CostOfClass(md, k) == Sum(md.cost, {i \in CostIndex : i[1] = k})

\* sum(sum(cost[k, :, :]) * v for k, v in objective_cost_class.items())
CostSum(md) ==
    Sum([k \in DOMAIN md.objective_cost_class |->
            CostOfClass(md, k) * md.objective_cost_class[k]],
        DOMAIN md.objective_cost_class)

\* The summand of a timestep: "*" binds tighter than "-", so the unused supply
\* alone is multiplied by the weight and bigM
PenaltyAt(md, timestep) ==
    Sum(md.unmet_demand, {i \in SlackIndex : i[3] = timestep})
    - Sum(md.unused_supply, {i \in SlackIndex : i[3] = timestep})
        * md.timestep_weights[timestep] * md.bigM

\* The penalty left as it is for either sense
PenaltyIgnoringSense(p, sense) == p

\* "if backend_model.objective_sense == 'maximize': unmet_demand *= -1"
PenaltyForSense(p, sense) == IF sense = "maximize" THEN -p ELSE p

\* obj_rule of minmax_cost_optimization, for a model of the given objective_sense
obj_rule(md, sense) ==
    LET unmet_demand ==
            IF md.ensure_feasibility
            THEN PenaltyForSense(
                     Sum([t \in Timesteps |-> PenaltyAt(md, t)], Timesteps), sense)
            ELSE 0
    IN  [rule |-> "minmax_cost_optimization",
         sense |-> sense,
         cost |-> CostSum(md),
         penalty |-> unmet_demand,
         slack_vars |-> IF md.ensure_feasibility THEN SlackIndex ELSE {},
         value |-> CostSum(md) + unmet_demand]

\* obj_rule of check_feasibility
feasibility_obj_rule ==
    [rule |-> "check_feasibility",
     sense |-> "minimize", cost |-> 0, penalty |-> 0, slack_vars |-> {}, value |-> 1]

\* The point the objective is evaluated at: at one loc::carrier and timestep the
\* balance is short (unmet demand) or long (unused supply), not both
InitObjective ==
    /\ \E ensure_feasibility \in BOOLEAN,
          slack \in [SlackIndex -> (0 - MaxSlack)..MaxSlack],
          timestep_weights \in [Timesteps -> 1..MaxWeight],
          cost \in [CostIndex -> 0..MaxCost],
          objective_cost_class \in
              {("monetary" :> 1), ("monetary" :> 1) @@ ("emissions" :> MaxWeight)} :
            model_data =
                [ensure_feasibility |-> ensure_feasibility,
                 unmet_demand |->
                     [i \in SlackIndex |-> IF slack[i] > 0 THEN slack[i] ELSE 0],
                 unused_supply |->
                     [i \in SlackIndex |-> IF slack[i] < 0 THEN 0 - slack[i] ELSE 0],
                 timestep_weights |-> timestep_weights,
                 bigM |-> BigM,
                 cost |-> cost,
                 objective_cost_class |-> objective_cost_class]
    /\ store = NoStore
    /\ energy_cap_index = {}
    /\ args = NoArgs
    /\ result = NoResult
    /\ registry = NoStore
    /\ phase = "objective"
    /\ obj = NoObj

\* minmax_cost_optimization on a model whose objective_sense is "minimize":
\* "backend_model.obj = po.Objective(...)" replaces whatever objective was there
MinimizeCost ==
    /\ obj' = obj_rule(model_data, "minimize")
    /\ UNCHANGED <<store, energy_cap_index, args, result, registry, phase, model_data>>

\* minmax_cost_optimization on a model whose objective_sense is "maximize"
MaximizeCost ==
    /\ obj' = obj_rule(model_data, "maximize")
    /\ UNCHANGED <<store, energy_cap_index, args, result, registry, phase, model_data>>

\* check_feasibility: "backend_model.obj = po.Objective(sense=po.minimize, ...)"
CheckFeasibility ==
    /\ obj' = feasibility_obj_rule
    /\ UNCHANGED <<store, energy_cap_index, args, result, registry, phase, model_data>>

NextObjective == MinimizeCost \/ MaximizeCost \/ CheckFeasibility

SpecObjective == InitObjective /\ [][NextObjective]_vars

-----------------------------------------------------------------------------
(* What a finished call used: read off the call's arguments and the store *)

TableCalls == {"get_capacity_constraint", "storage_capacity_constraint_rule",
               "resource_capacity_constraint_rule", "energy_capacity_constraint_rule"}
CapacityRules == {"storage_capacity_constraint_rule", "resource_capacity_constraint_rule",
                  "resource_area_constraint_rule", "energy_capacity_constraint_rule"}

Called(fns) == args.fn \in fns /\ result # NoResult

CallLocTech == <<args.node, args.tech>>

CallParameter ==
    CASE args.fn = "get_capacity_constraint" -> args.parameter
      [] args.fn = "storage_capacity_constraint_rule" -> "storage_cap"
      [] args.fn = "resource_capacity_constraint_rule" -> "resource_cap"
      [] args.fn = "resource_area_constraint_rule" -> "resource_area"
      [] args.fn = "energy_capacity_constraint_rule" -> "energy_cap"

CallVar == Var(CallParameter, args.node, args.tech)

Stored(suffix) == get_param(store, CallParameter \o suffix, CallLocTech)

\* The argument the caller passed (None when the caller passed nothing)
SuppliedEquals == IF args.fn = "get_capacity_constraint" THEN args._equals ELSE None
SuppliedMax == IF args.fn = "get_capacity_constraint" THEN args._max ELSE None
SuppliedMin == IF args.fn = "get_capacity_constraint" THEN args._min ELSE None
SuppliedScale ==
    CASE args.fn = "get_capacity_constraint" -> args.scale
      [] args.fn = "energy_capacity_constraint_rule" ->
            get_param(store, "energy_cap_scale", CallLocTech)
      [] OTHER -> None

\* Caller overrides as specified: the stored parameter iff nothing was supplied
OverriddenBy(supplied, suffix) == IF IsNone(supplied) THEN Stored(suffix) ELSE supplied

\* The value the decision table works on: a supplied None, False or 0 gives way
\* to the stored parameter
UsedIn(supplied, suffix) ==
    IF IsNone(supplied) \/ IsFalse(supplied) \/ supplied = Num(0)
    THEN Stored(suffix) ELSE supplied

IsSetValue(v) == ~IsNone(v) /\ ~IsFalse(v)

\* v multiplied by every scale factor that is given
ScaledIfGiven(v) == IF IsNone(SuppliedScale) THEN v ELSE Mul(v, SuppliedScale)

-----------------------------------------------------------------------------
(* C1: Priority law.  Whenever the equals value (passed by the caller, else  *)
(* the stored one) is set and finite, the call returns variable == equals,  *)
(* equals multiplied by the scale factor whenever one is given, whatever    *)
(* max and min are.                                                         *)
C1_PriorityLaw ==
    Called(TableCalls) =>
        LET e == OverriddenBy(SuppliedEquals, "_equals")
        IN  (IsSetValue(e) /\ ~IsInf(e)) => result = Equality(CallVar, ScaledIfGiven(e))

(* C3: Unconstrained law.  Whenever equals is absent, min resolves to 0 and  *)
(* max to +infinity, the call returns NoConstraint, for every scale factor; *)
(* so a loc::tech with no energy_cap bounds configured gets NoConstraint    *)
(* from energy_capacity_constraint_rule.                                    *)
C3_UnconstrainedLaw ==
    Called(TableCalls) =>
        ((/\ ~IsSetValue(UsedIn(SuppliedEquals, "_equals"))
          /\ UsedIn(SuppliedMin, "_min") = Num(0)
          /\ UsedIn(SuppliedMax, "_max") = Inf)
            => result = NoConstraint)

C3_Witness ==
    /\ Called({"get_capacity_constraint"})
    /\ args.scale = Num(MaxScale)
    /\ ~IsNone(args._min) /\ ~IsNone(args._max)
    /\ <<"energy_cap_equals", CallLocTech>> \notin DOMAIN store
    /\ ~IsSetValue(UsedIn(SuppliedEquals, "_equals"))
    /\ UsedIn(SuppliedMin, "_min") = Num(0)
    /\ UsedIn(SuppliedMax, "_max") = Inf
    /\ result = NoConstraint

(* C4: Range law.  Whenever equals is absent and not (min = 0 and max =      *)
(* +infinity), the call returns (min, variable, max), both bounds           *)
(* multiplied by the scale factor whenever one is given, a given 0          *)
(* included.                                                                *)
C4_RangeLaw ==
    Called(TableCalls) =>
        LET mn == UsedIn(SuppliedMin, "_min")
            mx == UsedIn(SuppliedMax, "_max")
        IN  (~IsSetValue(UsedIn(SuppliedEquals, "_equals")) /\ ~(mn = Num(0) /\ mx = Inf))
                => result = Range(ScaledIfGiven(mn), CallVar, ScaledIfGiven(mx))

(* C9: Caller overrides.  Each of equals, max and min is fetched from the    *)
(* parameter store iff the caller did not supply it; a supplied value, a    *)
(* supplied 0 included, is the one the decision table works on.             *)
C9_CallerOverrides ==
    Called({"get_capacity_constraint"}) =>
        result = DecisionTable(args.parameter, args.node, args.tech,
                               OverriddenBy(args._equals, "_equals"),
                               OverriddenBy(args._max, "_max"),
                               OverriddenBy(args._min, "_min"), args.scale)

-----------------------------------------------------------------------------
(* The parameters resource_area_constraint_rule reads before it delegates *)

CallEnergyCapMax == get_param(store, "energy_cap_max", CallLocTech)
CallAreaRatio == get_param(store, "resource_area_per_energy_cap", CallLocTech)

(* C2 as stated: for each of the four capacity kinds, whenever the kind's    *)
(* equals parameter is +infinity the kind's rule raises ModelError,         *)
(* whatever the other parameters are.                                       *)
C2_InfiniteEquals_AllKinds ==
    Called(CapacityRules) =>
        (Stored("_equals") = Inf => result.kind = "ModelError")

(* C2 amended: whenever the kind's equals parameter is +infinity, the rules  *)
(* of storage_cap, resource_cap and energy_cap raise ModelError naming the  *)
(* parameter, technology and node; the rule of resource_area raises it      *)
(* too unless energy_cap_max is 0 and resource_area_per_energy_cap is       *)
(* None, False or 0, in which case it returns resource_area == 0.           *)
C2_InfiniteEquals ==
    Called(CapacityRules) =>
        (Stored("_equals") = Inf =>
            IF /\ args.fn = "resource_area_constraint_rule"
               /\ CallEnergyCapMax = Num(0)
               /\ (~IsSetValue(CallAreaRatio) \/ CallAreaRatio = Num(0))
            THEN result = Equality(CallVar, Num(0))
            ELSE result = ModelError(CallParameter, args.node, args.tech))

C2_Witness ==
    /\ Called({"resource_area_constraint_rule"})
    /\ Stored("_equals") = Inf
    /\ Stored("_max") = Num(0)
    /\ CallEnergyCapMax = Num(0)
    /\ CallAreaRatio = Num(1)
    /\ result.kind = "ModelError"

(* C7: Area zero-forcing.  When energy_cap_max is 0 and no                   *)
(* resource_area_per_energy_cap ratio is set, resource_area_constraint_rule *)
(* returns resource_area == 0; in every other case (energy_cap_max not 0,   *)
(* or a ratio is set, a ratio of 0 included) it returns what                *)
(* get_capacity_constraint returns for resource_area.                       *)
C7_AreaZeroForcing ==
    Called({"resource_area_constraint_rule"}) =>
        IF CallEnergyCapMax = Num(0) /\ ~IsSetValue(CallAreaRatio)
        THEN result = Equality(CallVar, Num(0))
        ELSE result = DecisionTable("resource_area", args.node, args.tech,
                                    Stored("_equals"), Stored("_max"), Stored("_min"), None)

(* C6: Systemwide equals precedence.  For every value of                     *)
(* energy_cap_equals_systemwide that is set, 0 included, the systemwide     *)
(* rule returns sum(energy_cap[node, tech] for the nodes whose pair is in   *)
(* energy_cap_index) == equals_systemwide, whatever max_systemwide is; it   *)
(* returns the <= max_systemwide constraint only when equals is not set.    *)
C6_SystemwideEqualsPrecedence ==
    Called({"energy_capacity_systemwide_constraint_rule"}) =>
        LET e == get_param(store, "energy_cap_equals_systemwide", <<args.tech>>)
            mx == get_param(store, "energy_cap_max_systemwide", <<args.tech>>)
            terms == {Var("energy_cap", lt[1], lt[2]) :
                         lt \in {x \in energy_cap_index : x[2] = args.tech}}
        IN  IF IsSetValue(e)
            THEN result = SumRelation("==", terms, e)
            ELSE result = SumRelation("<=", terms, mx)

-----------------------------------------------------------------------------
(* C10: Order independence.  Whatever the order in which the rules are       *)
(* evaluated over the loc::techs, the constraint registered for a rule and  *)
(* a loc::tech is the one the rule returns for that loc::tech from the      *)
(* parameter store alone, it stays as registered while other pairs are      *)
(* evaluated, and no step changes the parameter store.                      *)
C10_OrderIndependence ==
    /\ [](\A k \in DOMAIN registry : registry[k] = RuleResult(store, k[1], k[2], k[3]))
    /\ [][/\ store' = store
          /\ \A k \in DOMAIN registry :
                k \in DOMAIN registry' /\ registry'[k] = registry[k]]_vars

C10_Witness ==
    /\ phase = "build"
    /\ <<"energy_capacity_constraint_rule", "n1", "t1">> \in DOMAIN registry
    /\ registry[<<"energy_capacity_constraint_rule", "n1", "t1">>]
            = Equality(Var("energy_cap", "n1", "t1"), Num(MaxScale))
    /\ <<"energy_capacity_constraint_rule", "n2", "t1">> \in DOMAIN registry
    /\ <<"resource_area_constraint_rule", "n1", "t1">> \in DOMAIN registry
    /\ <<"storage_capacity_constraint_rule", "n1", "t2">> \in DOMAIN registry

-----------------------------------------------------------------------------
(* The penalty as documented: per timestep, unmet demand less unused supply, *)
(* the difference multiplied by the timestep's weight and by bigM            *)
DocumentedPenalty ==
    Sum([t \in Timesteps |->
            (Sum(model_data.unmet_demand, {i \in SlackIndex : i[3] = t})
             - Sum(model_data.unused_supply, {i \in SlackIndex : i[3] = t}))
            * model_data.timestep_weights[t] * model_data.bigM],
        Timesteps)

\* The model holds an objective built by minmax_cost_optimization
IsCostObjective(o) == o.rule = "minmax_cost_optimization"

OtherSense(sense) == IF sense = "minimize" THEN "maximize" ELSE "minimize"

(* C5: Penalty formula.  With ensure_feasibility true, the minimize          *)
(* objective is the weighted cost sum plus, summed over the timesteps,       *)
(* (sum of unmet_demand - sum of unused_supply) * timestep_weights * bigM.   *)
C5_PenaltyFormula ==
    (model_data.ensure_feasibility /\ IsCostObjective(obj) /\ obj.sense = "minimize") =>
        obj.value = CostSum(model_data) + DocumentedPenalty

(* C8: Objective sign law.  With ensure_feasibility true the penalty of the  *)
(* maximize objective is the negation of the penalty of the minimize         *)
(* objective built from the same data, and the weighted cost sums are the    *)
(* same; with ensure_feasibility false neither objective has any             *)
(* unmet_demand or unused_supply contribution.  Stated of the objective the  *)
(* model holds against the one built for the other sense, and of every call  *)
(* that replaces the objective of one sense by the objective of the other.   *)
C8_ObjectiveSignLaw ==
    /\ [](IsCostObjective(obj) =>
            LET other == obj_rule(model_data, OtherSense(obj.sense))
            IN  /\ obj.value = obj.cost + obj.penalty
                /\ other.cost = obj.cost
                /\ model_data.ensure_feasibility => other.penalty = 0 - obj.penalty
                /\ ~model_data.ensure_feasibility =>
                        /\ obj.slack_vars = {} /\ obj.penalty = 0
                        /\ other.slack_vars = {} /\ other.penalty = 0)
    /\ [][(IsCostObjective(obj) /\ IsCostObjective(obj') /\ obj'.sense # obj.sense) =>
            /\ obj'.cost = obj.cost
            /\ model_data.ensure_feasibility => obj'.penalty = 0 - obj.penalty
            /\ ~model_data.ensure_feasibility => obj'.penalty = 0 /\ obj.penalty = 0]_vars

C8_Witness ==
    /\ IsCostObjective(obj)
    /\ obj.sense = "maximize"
    /\ model_data.ensure_feasibility
    /\ obj.penalty > 0
    /\ obj.cost > 0
    /\ obj_rule(model_data, "minimize").penalty < 0

====
